---------------------------- MODULE Spec2Model ----------------------------
(***************************************************************************)
(* Model of src/server.py: the handler get_nasa_power_data of the NASA     *)
(* POWER proxy (query validation, one provider call, response-shape check, *)
(* raw-date-count check, validity filtering, reduction to a <= 5 day       *)
(* average).                                                               *)
(*                                                                         *)
(* Numbers.  Python floats are modelled as exact decimals with two         *)
(* fractional digits, held as integers in hundredths: 273.15 is 27315,     *)
(* 100.0 is 10000, a humidity of 100.1 is 10010.  A mean is the exact      *)
(* rational [num, den].  round(x, 2) is exact away from a tie; at an exact *)
(* tie the binary representation of the float decides, so both neighbours  *)
(* are possible outcomes.                                                  *)
(***************************************************************************)
EXTENDS Integers, Sequences, FiniteSets, TLC

VARIABLES
    pc,            \* position of the handler
    query,         \* request.args: lat, lng, date
    calls,         \* number of requests.get calls issued so far
    trace,         \* pipeline stages entered so far, in order
    nresp,         \* number of responses returned
    fetched,       \* outcome of requests.get: transport result, status, body kind
    data,          \* response.json()
    dates,         \* sorted(temp_data.keys())
    valid_dates,   \* local valid_dates
    temperatures,  \* local temperatures
    humidities,    \* local humidities
    temp_celsius,  \* local temp_celsius, an exact rational [num, den]
    resp,          \* the response returned (status, kind, body fields)
    cpc,           \* position of the per-value classification
    probe,         \* a raw per-day value (temp_val / hum_val)
    temp_valid,    \* local temp_valid for probe
    hum_valid      \* local hum_valid for probe

vars == <<pc, query, calls, trace, nresp, fetched, data, dates, valid_dates,
          temperatures, humidities, temp_celsius, resp,
          cpc, probe, temp_valid, hum_valid>>

handlerVars == <<pc, query, calls, trace, nresp, fetched, data, dates, valid_dates,
                 temperatures, humidities, temp_celsius, resp>>

classifyVars == <<cpc, probe, temp_valid, hum_valid>>

---------------------------------------------------------------------------
(* Values *)

\* Python None for an optional number
None == [ok |-> FALSE, v |-> 0]

Some(x) == [ok |-> TRUE, v |-> x]

\* a raw JSON value of one day: a number, a non-empty list (v is its first
\* element), an empty list, null/absent, a non-numeric string, or NaN
Raw(tag, x) == [tag |-> tag, v |-> x]

---------------------------------------------------------------------------
(* Per-value classification, lines 142-193 *)

\* lines 143-148: a list is replaced by its first element, an empty list by None
Unwrap(raw) ==
    IF raw.tag = "list" THEN Raw("num", raw.v)
    ELSE IF raw.tag = "elist" THEN Raw("none", 0)
    ELSE raw

\* TempValid without the sentinel test of line 160: only the wider range of
\* line 172 rejects
TempValid_Wide(raw) ==
    LET r == Unwrap(raw) IN
    IF r.tag = "none" THEN None
    ELSE IF r.tag = "str" THEN None
    ELSE IF r.tag = "nan" THEN None
    ELSE LET tv == r.v IN
         IF 20000 <= tv /\ tv <= 35000 THEN Some(tv)
         ELSE IF -8000 <= tv /\ tv <= 8000 THEN Some(tv)
         ELSE IF -15000 < tv /\ tv < 45000 THEN Some(tv)
         ELSE None

\* lines 150-175: temp_valid for one raw value.  Every comparison with NaN is
\* false, so NaN reaches the final else branch and fails its range check.
TempValid(raw) ==
    LET r == Unwrap(raw) IN
    IF r.tag = "none" THEN None
    ELSE IF r.tag = "str" THEN None
    ELSE IF r.tag = "nan" THEN None
    ELSE LET tv == r.v IN
         IF tv < -10000 \/ tv > 40000 THEN None
         ELSE IF 20000 <= tv /\ tv <= 35000 THEN Some(tv)
         ELSE IF -8000 <= tv /\ tv <= 8000 THEN Some(tv)
         ELSE IF -15000 < tv /\ tv < 45000 THEN Some(tv)
         ELSE None

\* lines 177-193: hum_valid for one raw value
HumValid(raw) ==
    LET r == Unwrap(raw) IN
    IF r.tag = "none" THEN None
    ELSE IF r.tag = "str" THEN None
    ELSE IF r.tag = "nan" THEN None
    ELSE LET hv == r.v IN
         IF hv < 0 \/ hv > 10000 THEN None
         ELSE Some(hv)

---------------------------------------------------------------------------
(* Sequences and arithmetic used by the handler *)

Min(S) == CHOOSE x \in S : \A y \in S : x <= y

\* line 108: sorted(temp_data.keys())
RECURSIVE Sorted(_)
Sorted(S) == IF S = {} THEN <<>> ELSE <<Min(S)>> \o Sorted(S \ {Min(S)})

\* dict.get(key): None when the key is absent
Get(dict, key) == IF key \in DOMAIN dict THEN dict[key] ELSE Raw("none", 0)

\* lines 222-224: seq[-k:]
LastN(seq, k) ==
    IF Len(seq) <= k THEN seq ELSE SubSeq(seq, Len(seq) - k + 1, Len(seq))

\* sum(seq)
RECURSIVE Sum(_)
Sum(seq) == IF seq = <<>> THEN 0 ELSE Head(seq) + Sum(Tail(seq))

\* the possible results of round(num/den, 2), in hundredths, den > 0:
\* the nearest integer, and either neighbour at an exact tie
Round2(num, den) ==
    LET q == num \div den
        r == num % den
    IN  IF 2 * r < den THEN {q}
        ELSE IF 2 * r > den THEN {q + 1}
        ELSE {q, q + 1}

---------------------------------------------------------------------------
(* Inputs *)

\* the requested window is end_date - 7 days .. end_date, line 37
WindowDays == 7

\* most dates a provider payload carries
MaxDates == 7

\* request.args.get('lat', type=float): None when absent or not a float
LatArgs == {None, Some(0), Some(35)}

LngArgs == {None, Some(0), Some(139)}

\* request.args.get('date'): None, or a string; a string is either of the
\* shape YYYY-MM-DD with numbers y, m, d, or empty, or of another shape
DateArg(ok, shape, y, m, d) == [ok |-> ok, shape |-> shape, y |-> y, m |-> m, d |-> d]

DateArgs ==
    { DateArg(FALSE, "none", 0, 0, 0),
      DateArg(TRUE, "empty", 0, 0, 0),
      DateArg(TRUE, "other", 0, 0, 0),
      DateArg(TRUE, "ymd", 2024, 1, 15),
      DateArg(TRUE, "ymd", 2024, 2, 30),
      DateArg(TRUE, "ymd", 1, 1, 3) }

\* one day of a provider payload: its T2M value and its RH2M value; a humidity
\* of tag "absent" is a date missing from the RH2M series
Profiles ==
    { [t |-> Raw("num", 27000),  h |-> Raw("num", 5001)],
      [t |-> Raw("list", 1500),  h |-> Raw("num", 10000)],
      [t |-> Raw("num", 27000),  h |-> Raw("num", -99900)],
      [t |-> Raw("num", -99900), h |-> Raw("list", 0)] }

\* the JSON document of a provider response
Payload(top, props, param, ttag, T, htag, H) ==
    [top |-> top, properties |-> props, parameter |-> param,
     T2Mtag |-> ttag, T2M |-> T, RH2Mtag |-> htag, RH2M |-> H]

\* a payload of the expected shape, from the days f: 1..n -> Profiles
DaysPayload(f) ==
    Payload("object", TRUE, TRUE,
            "dict", [d \in DOMAIN f |-> f[d].t],
            "dict", [d \in {e \in DOMAIN f : f[e].h.tag # "absent"} |-> f[d].h])

\* the day series a provider payload may carry: 0 to MaxDates dates
DaySeries == UNION { [1..n -> Profiles] : n \in 0..MaxDates }

BaseDays == [d \in 1..4 |-> [t |-> Raw("num", 30000), h |-> Raw("num", 5000)]]

MalformedPayloads ==
    LET b == DaysPayload(BaseDays) IN
    { [b EXCEPT !.top = "array"],
      [b EXCEPT !.properties = FALSE],
      [b EXCEPT !.parameter = FALSE],
      [b EXCEPT !.T2Mtag = "absent"],
      [b EXCEPT !.RH2Mtag = "absent"],
      [b EXCEPT !.T2Mtag = "nondict"],
      [b EXCEPT !.RH2Mtag = "nondict"],
      [b EXCEPT !.RH2M = [d \in {} |-> Raw("none", 0)]] }

\* provider status codes
Statuses == {200, 300, 404, 500}

---------------------------------------------------------------------------
(* Responses *)

NoFetch == [outcome |-> "none", status |-> 0, json |-> FALSE]

NoData == Payload("none", FALSE, FALSE, "absent", <<>>, "absent", <<>>)

NoRational == [num |-> 0, den |-> 1]

\* jsonify({'error': ...}), status: kind names the return statement taken;
\* count and errDates are the count and the date list the message carries
ErrorResponse(status, kind, count, errDates) ==
    [status |-> status, kind |-> kind, dates |-> <<>>, temperatures |-> <<>>,
     humidities |-> <<>>, avgTemp |-> 0, avgHumidity |-> 0, dataDays |-> 0,
     count |-> count, errDates |-> errDates]

\* lines 235-243: jsonify({'success': True, ...}), status 200
SuccessResponse(ds, ts, hs, avgT, avgH) ==
    [status |-> 200, kind |-> "Success", dates |-> ds, temperatures |-> ts,
     humidities |-> hs, avgTemp |-> avgT, avgHumidity |-> avgH,
     dataDays |-> Len(ds), count |-> 0, errDates |-> <<>>]

NoResponse == ErrorResponse(0, "none", 0, <<>>)

\* a return statement of the handler: the response goes out, the handler ends
Return(r) ==
    /\ resp' = r
    /\ nresp' = nresp + 1
    /\ pc' = "done"

---------------------------------------------------------------------------
(* Query validation, lines 26-40 *)

IsLeap(y) == (y % 4 = 0 /\ y % 100 # 0) \/ y % 400 = 0

DaysInMonth(y, m) ==
    IF m = 2 THEN (IF IsLeap(y) THEN 29 ELSE 28)
    ELSE IF m \in {4, 6, 9, 11} THEN 30 ELSE 31

\* line 36: datetime.strptime(date_str, '%Y-%m-%d') returns a date
Strptime(d) ==
    /\ d.shape = "ymd"
    /\ 1 <= d.y /\ d.y <= 9999
    /\ 1 <= d.m /\ d.m <= 12
    /\ 1 <= d.d /\ d.d <= DaysInMonth(d.y, d.m)

\* line 37: end_date - timedelta(days=7) is a date (no earlier than 0001-01-01)
WindowStartExists(d) == ~(d.y = 1 /\ d.m = 1 /\ d.d <= WindowDays)

\* line 31: not lat or not lng or not date_str
Falsy(x) == ~x.ok \/ x.v = 0

MissingArgs(lat, lng, d) == Falsy(lat) \/ Falsy(lng) \/ ~d.ok \/ d.shape = "empty"

Validate ==
    /\ pc = "start"
    /\ \E lat \in LatArgs, lng \in LngArgs, d \in DateArgs :
         /\ query' = [lat |-> lat, lng |-> lng, date |-> d]
         /\ trace' = Append(trace, "validate")
         /\ IF MissingArgs(lat, lng, d)
              THEN Return(ErrorResponse(400, "BadRequest", 0, <<>>))
            ELSE IF ~Strptime(d) \/ ~WindowStartExists(d)
              THEN Return(ErrorResponse(500, "ServerError", 0, <<>>))
            ELSE /\ pc' = "fetch"
                 /\ UNCHANGED <<resp, nresp>>
    /\ UNCHANGED <<calls, fetched, data, dates, valid_dates, temperatures,
                   humidities, temp_celsius>>
    /\ UNCHANGED classifyVars

---------------------------------------------------------------------------
(* Provider call, lines 42-74 *)

\* line 72: response.raise_for_status() raises HTTPError for 4xx and 5xx only
RaisesForStatus(status) == 400 <= status /\ status < 600

\* lines 64-72: the status check raises
StatusCheckRaises(status) == status # 200 /\ RaisesForStatus(status)

Fetch ==
    /\ pc = "fetch"
    /\ calls' = calls + 1
    /\ trace' = Append(trace, "fetch")
    /\ \/ \* requests.get raises (connection error, timeout)
          /\ fetched' = [outcome |-> "transport_error", status |-> 0, json |-> FALSE]
          /\ Return(ErrorResponse(500, "ProviderError", 0, <<>>))
          /\ data' = data
       \/ \* a response arrives and the status check raises HTTPError
          \E st \in Statuses, js \in BOOLEAN :
            /\ StatusCheckRaises(st)
            /\ fetched' = [outcome |-> "response", status |-> st, json |-> js]
            /\ Return(ErrorResponse(500, "ProviderError", 0, <<>>))
            /\ data' = data
       \/ \* response.json() raises: a RequestException or a ValueError,
          \* by the version of the requests library
          \E st \in Statuses, k \in {"ProviderError", "ServerError"} :
            /\ ~StatusCheckRaises(st)
            /\ fetched' = [outcome |-> "response", status |-> st, json |-> FALSE]
            /\ Return(ErrorResponse(500, k, 0, <<>>))
            /\ data' = data
       \/ \* response.json() returns a document of the expected shape
          \E st \in Statuses, f \in DaySeries :
            /\ ~StatusCheckRaises(st)
            /\ fetched' = [outcome |-> "response", status |-> st, json |-> TRUE]
            /\ data' = DaysPayload(f)
            /\ pc' = "shape"
            /\ UNCHANGED <<resp, nresp>>
       \/ \* response.json() returns a document of another shape
          \E st \in Statuses, p \in MalformedPayloads :
            /\ ~StatusCheckRaises(st)
            /\ fetched' = [outcome |-> "response", status |-> st, json |-> TRUE]
            /\ data' = p
            /\ pc' = "shape"
            /\ UNCHANGED <<resp, nresp>>
    /\ UNCHANGED <<query, dates, valid_dates, temperatures, humidities, temp_celsius>>
    /\ UNCHANGED classifyVars

---------------------------------------------------------------------------
(* Response-shape check and raw-date-count check, lines 76-118 *)

\* lines 97, 100: not temp_data / not humidity_data
Empty(tag, dict) == tag = "absent" \/ (tag = "dict" /\ DOMAIN dict = {})

\* least number of raw dates, line 115
MinDays == 3

CheckShape ==
    /\ pc = "shape"
    /\ IF data.top # "object"
         THEN \* line 78: data.keys() raises
              /\ Return(ErrorResponse(500, "ServerError", 0, <<>>))
              /\ trace' = Append(trace, "shape")
              /\ dates' = dates
       ELSE IF ~data.properties \/ ~data.parameter
                 \/ Empty(data.T2Mtag, data.T2M) \/ Empty(data.RH2Mtag, data.RH2M)
                 \/ data.T2Mtag # "dict"
         THEN \* lines 84, 89, 98, 101, 113
              /\ Return(ErrorResponse(500, "MalformedResponse", 0, <<>>))
              /\ trace' = Append(trace, "shape")
              /\ dates' = dates
       ELSE LET ds == Sorted(DOMAIN data.T2M) IN
            /\ dates' = ds
            /\ trace' = trace \o <<"shape", "count">>
            /\ IF Len(ds) < MinDays
                 THEN Return(ErrorResponse(500, "InsufficientHistory", Len(ds), ds))
                 ELSE /\ pc' = "normalize"
                      /\ UNCHANGED <<resp, nresp>>
    /\ UNCHANGED <<query, calls, fetched, data, valid_dates, temperatures,
                   humidities, temp_celsius>>
    /\ UNCHANGED classifyVars

---------------------------------------------------------------------------
(* Validity filtering, lines 120-207 *)

\* BothValid with "or" for "and"
BothValid_Either(tv, hv) == tv.ok \/ hv.ok

\* line 196: the date is kept when both values are valid
BothValid(tv, hv) == tv.ok /\ hv.ok

\* lines 134-202: the loop over dates, from the accumulated lists acc
RECURSIVE NormalizeFrom(_, _, _, _)
NormalizeFrom(ds, tdict, hdict, acc) ==
    IF ds = <<>> THEN acc
    ELSE LET date == Head(ds)
             tv == TempValid(Get(tdict, date))
             hv == HumValid(Get(hdict, date))
             next == IF BothValid(tv, hv)
                       THEN [valid_dates |-> Append(acc.valid_dates, date),
                             temperatures |-> Append(acc.temperatures, tv.v),
                             humidities |-> Append(acc.humidities, hv.v)]
                       ELSE acc
         IN  NormalizeFrom(Tail(ds), tdict, hdict, next)

\* line 136: humidity_data.get(date) if isinstance(humidity_data, dict) else None
HumidityDict(d) == IF d.RH2Mtag = "dict" THEN d.RH2M ELSE <<>>

Normalize ==
    /\ pc = "normalize"
    /\ LET r == NormalizeFrom(dates, data.T2M, HumidityDict(data),
                              [valid_dates |-> <<>>, temperatures |-> <<>>,
                               humidities |-> <<>>])
       IN  /\ valid_dates' = r.valid_dates
           /\ temperatures' = r.temperatures
           /\ humidities' = r.humidities
    /\ trace' = Append(trace, "normalize")
    /\ pc' = "reduce"
    /\ UNCHANGED <<query, calls, fetched, data, dates, temp_celsius, resp, nresp>>
    /\ UNCHANGED classifyVars

---------------------------------------------------------------------------
(* Reduction, lines 209-243 *)

\* most days averaged, lines 210, 220-224
MaxKeep == 5

\* EnoughValid with the lower limit one too low
EnoughValid_Two(n) == ~(n < MaxKeep /\ ~(n >= MinDays - 1))

\* lines 210-217: the handler goes on with n valid days
EnoughValid(n) == ~(n < MaxKeep /\ ~(n >= MinDays))

\* InsufficientValidData with a message that leaves the valid dates out
InsufficientValidData_NoDates(ts, vd) ==
    ErrorResponse(500, "InsufficientValidData", Len(ts), <<>>)

\* lines 215-217: the error of too few valid days, with their count and dates
InsufficientValidData(ts, vd) ==
    ErrorResponse(500, "InsufficientValidData", Len(ts), vd)

\* Keep with the slice [:5] for [-5:]
Keep_Oldest(seq) == IF Len(seq) > MaxKeep THEN SubSeq(seq, 1, MaxKeep) ELSE seq

\* lines 220-224: the most recent MaxKeep entries
Keep(seq) == IF Len(seq) > MaxKeep THEN LastN(seq, MaxKeep) ELSE seq

\* ToCelsius with >= for >
ToCelsius_AtLeast(total, n) ==
    IF total >= 10000 * n THEN [num |-> total - 27315 * n, den |-> n]
    ELSE [num |-> total, den |-> n]

\* line 233: avg_temp - 273.15 if avg_temp > 100 else avg_temp, avg_temp = total/n
ToCelsius(total, n) ==
    IF total > 10000 * n THEN [num |-> total - 27315 * n, den |-> n]
    ELSE [num |-> total, den |-> n]

Reduce ==
    /\ pc = "reduce"
    /\ trace' = Append(trace, "reduce")
    /\ IF ~EnoughValid(Len(temperatures))
         THEN /\ Return(InsufficientValidData(temperatures, valid_dates))
              /\ UNCHANGED <<valid_dates, temperatures, humidities, temp_celsius>>
         ELSE LET ts == Keep(temperatures)
                  hs == Keep(humidities)
                  vd == Keep(valid_dates)
                  tc == ToCelsius(Sum(ts), Len(ts))
              IN  /\ temperatures' = ts
                  /\ humidities' = hs
                  /\ valid_dates' = vd
                  /\ temp_celsius' = tc
                  /\ \E avgT \in Round2(tc.num, tc.den),
                        avgH \in Round2(Sum(hs), Len(hs)) :
                       Return(SuccessResponse(vd, ts, hs, avgT, avgH))
    /\ UNCHANGED <<query, calls, fetched, data, dates>>
    /\ UNCHANGED classifyVars

---------------------------------------------------------------------------
(* The handler *)

Init ==
    /\ pc = "start"
    /\ query = [lat |-> None, lng |-> None, date |-> DateArg(FALSE, "none", 0, 0, 0)]
    /\ calls = 0
    /\ trace = <<>>
    /\ nresp = 0
    /\ fetched = NoFetch
    /\ data = NoData
    /\ dates = <<>>
    /\ valid_dates = <<>>
    /\ temperatures = <<>>
    /\ humidities = <<>>
    /\ temp_celsius = NoRational
    /\ resp = NoResponse
    /\ cpc = "idle"
    /\ probe = Raw("none", 0)
    /\ temp_valid = None
    /\ hum_valid = None

Next == Validate \/ Fetch \/ CheckShape \/ Normalize \/ Reduce

Spec == Init /\ [][Next]_vars

---------------------------------------------------------------------------
(* The per-value classification on its own: one raw value of a day is      *)
(* classified as a temperature and as a humidity.                          *)

\* the probed values reach ProbeSpread hundredths around every threshold
ProbeSpread == 10

\* and every whole degree from -ProbeDegrees to ProbeDegrees
ProbeDegrees == 460

Thresholds == {-15000, -10000, -8000, 0, 8000, 10000, 20000, 35000, 40000, 45000}

ProbeValues ==
    { b + e : b \in Thresholds, e \in -ProbeSpread..ProbeSpread }
    \cup { 100 * k : k \in -ProbeDegrees..ProbeDegrees }
    \cup { -99900, -699900 }

ProbeRaws ==
    { Raw(tag, x) : tag \in {"num", "list"}, x \in ProbeValues }
    \cup { Raw(tag, 0) : tag \in {"elist", "none", "str", "nan"} }

InitClassify ==
    /\ pc = "idle"
    /\ query = [lat |-> None, lng |-> None, date |-> DateArg(FALSE, "none", 0, 0, 0)]
    /\ calls = 0
    /\ trace = <<>>
    /\ nresp = 0
    /\ fetched = NoFetch
    /\ data = NoData
    /\ dates = <<>>
    /\ valid_dates = <<>>
    /\ temperatures = <<>>
    /\ humidities = <<>>
    /\ temp_celsius = NoRational
    /\ resp = NoResponse
    /\ cpc = "ready"
    /\ probe \in ProbeRaws
    /\ temp_valid = None
    /\ hum_valid = None

\* lines 143-193 for one value
Classify ==
    /\ cpc = "ready"
    /\ temp_valid' = TempValid(probe)
    /\ hum_valid' = HumValid(probe)
    /\ cpc' = "done"
    /\ probe' = probe
    /\ UNCHANGED handlerVars

NextClassify == Classify

SpecClassify == InitClassify /\ [][NextClassify]_vars

\* the handler and the classification of single values, side by side
InitAll == Init \/ InitClassify

NextAll == Next \/ NextClassify

SpecAll == InitAll /\ [][NextAll]_vars

---------------------------------------------------------------------------
(* Reading the inputs and the response, for the properties below *)

Range(seq) == { seq[i] : i \in 1..Len(seq) }

IsAscending(seq) == \A i \in 1..(Len(seq) - 1) : seq[i] < seq[i + 1]

\* the raw value is a number, or a list that starts with one
IsNumber(raw) == raw.tag \in {"num", "list"}

\* the document has properties.parameter with both series as mappings
ExpectedShape ==
    /\ data.top = "object"
    /\ data.properties
    /\ data.parameter
    /\ data.T2Mtag = "dict"
    /\ data.RH2Mtag = "dict"

RawDates == DOMAIN data.T2M

RawT(d) == data.T2M[d]

\* no humidity when the series is no mapping or lacks the date
RawH(d) ==
    IF data.RH2Mtag = "dict" /\ d \in DOMAIN data.RH2M THEN data.RH2M[d]
    ELSE Raw("none", 0)

\* humidity in [0, 100]
HumidityInRange(raw) == IsNumber(raw) /\ 0 <= raw.v /\ raw.v <= 10000

\* the dates of the payload whose temperature and humidity are both valid
ValidDays == { d \in RawDates : TempValid(RawT(d)).ok /\ HumidityInRange(RawH(d)) }

\* the k most recent dates of S
MostRecent(S, k) == { d \in S : Cardinality({ e \in S : e > d }) < k }

Smaller(a, b) == IF a < b THEN a ELSE b

\* the response carries, for each kept date, the raw values of that date
CarriesRawValues ==
    \A i \in 1..Len(resp.dates) :
        /\ resp.temperatures[i] = RawT(resp.dates[i]).v
        /\ resp.humidities[i] = RawH(resp.dates[i]).v

PipelineOrder == <<"validate", "fetch", "shape", "count", "normalize", "reduce">>

IsPrefix(a, b) == Len(a) <= Len(b) /\ SubSeq(b, 1, Len(a)) = a

SuccessStatus(st) == 200 <= st /\ st < 300

---------------------------------------------------------------------------
(* Properties *)

\* C1: in every 200 response, dates, temperatures and humidities have the
\* same length, that length is dataDays, and dataDays is between 3 and 5.
C1_SummaryShape ==
    resp.status = 200 =>
        /\ Len(resp.dates) = resp.dataDays
        /\ Len(resp.temperatures) = resp.dataDays
        /\ Len(resp.humidities) = resp.dataDays
        /\ 3 <= resp.dataDays /\ resp.dataDays <= 5

\* a 200 response of 3 days from a payload of 7 dates, some of them invalid
C1_Witness ==
    /\ pc = "done" /\ resp.status = 200
    /\ resp.dataDays = 3
    /\ Cardinality(RawDates) = 7

\* C2: a payload that yields n >= 3 valid days is answered with success; the
\* kept dates are the min(n, 5) most recent valid dates in ascending order,
\* and the kept temperatures and humidities are the values of those dates.
C2_MostRecentKept ==
    (pc = "done" /\ ExpectedShape /\ Cardinality(ValidDays) >= 3) =>
        /\ resp.status = 200
        /\ Len(resp.dates) = Smaller(Cardinality(ValidDays), 5)
        /\ Range(resp.dates) = MostRecent(ValidDays, 5)
        /\ IsAscending(resp.dates)
        /\ Len(resp.temperatures) = Len(resp.dates)
        /\ Len(resp.humidities) = Len(resp.dates)
        /\ CarriesRawValues

\* 6 valid days among 7 dates, the invalid one in the middle: the oldest
\* valid date is the one dropped
C2_Witness ==
    /\ pc = "done" /\ ExpectedShape
    /\ ValidDays = {1, 2, 3, 5, 6, 7}
    /\ resp.dates = <<2, 3, 5, 6, 7>>

\* C3, as stated: every provider response in which fewer than 3 days are
\* valid, those with fewer than 3 raw dates included, is answered with
\* InsufficientValidData (500) carrying the count and the list of valid dates.
C3_AsStated ==
    (pc = "done" /\ ExpectedShape /\ RawDates # {} /\ DOMAIN data.RH2M # {}
       /\ Cardinality(ValidDays) < 3) =>
        /\ resp.status = 500
        /\ resp.kind = "InsufficientValidData"
        /\ resp.count = Cardinality(ValidDays)
        /\ resp.errDates = Sorted(ValidDays)

\* C3, amended: a provider response of the expected shape with at least 3 raw
\* dates of which fewer than 3 are valid is answered with
\* InsufficientValidData (500) carrying the count and the list of valid
\* dates; one with 1 or 2 raw dates is answered with InsufficientHistory (500).
C3_InsufficientValidData ==
    (pc = "done" /\ ExpectedShape /\ RawDates # {} /\ DOMAIN data.RH2M # {}
       /\ Cardinality(ValidDays) < 3) =>
        IF Cardinality(RawDates) >= 3
          THEN /\ resp.status = 500
               /\ resp.kind = "InsufficientValidData"
               /\ resp.count = Cardinality(ValidDays)
               /\ resp.errDates = Sorted(ValidDays)
          ELSE /\ resp.status = 500
               /\ resp.kind = "InsufficientHistory"

\* 2 valid days among 5 raw dates: the error names both
C3_Witness ==
    /\ pc = "done" /\ ExpectedShape
    /\ Cardinality(RawDates) = 5
    /\ ValidDays = {2, 4}
    /\ resp.kind = "InsufficientValidData"
    /\ resp.count = 2
    /\ resp.errDates = <<2, 4>>

\* C4: when latitude, longitude or date is missing or unparsable (a date
\* string that is no YYYY-MM-DD date included), the answer is 400 BadRequest
\* and no provider call has been made.
C4_BadRequest ==
    (pc = "done"
       /\ (~query.lat.ok \/ ~query.lng.ok \/ ~query.date.ok
             \/ query.date.shape = "empty" \/ ~Strptime(query.date))) =>
        /\ resp.status = 400
        /\ resp.kind = "BadRequest"
        /\ calls = 0

\* C5: a query with latitude in [-90, 90], longitude in [-180, 180] and a
\* date, all supplied and parseable, is never answered with 400: the handler
\* goes on to contact the provider.
C5_ValidQueryAccepted ==
    (pc = "done"
       /\ query.lat.ok /\ -90 <= query.lat.v /\ query.lat.v <= 90
       /\ query.lng.ok /\ -180 <= query.lng.v /\ query.lng.v <= 180
       /\ query.date.ok /\ Strptime(query.date)) =>
        /\ resp.status # 400
        /\ calls >= 1

\* C6, as stated: a numeric temperature t is valid when it lies in [200, 350],
\* in [-80, 80] or in the residual ranges (80, 200), (-150, -80), (350, 450),
\* and invalid when it lies outside [-150, 450].
C6_AsStated ==
    (cpc = "done" /\ IsNumber(probe)) =>
        LET t == probe.v IN
        /\ (20000 <= t /\ t <= 35000) => temp_valid.ok
        /\ (-8000 <= t /\ t <= 8000) => temp_valid.ok
        /\ (8000 < t /\ t < 20000) => temp_valid.ok
        /\ (-15000 < t /\ t < -8000) => temp_valid.ok
        /\ (35000 < t /\ t < 45000) => temp_valid.ok
        /\ (t < -15000 \/ t > 45000) => ~temp_valid.ok

\* C6, amended: a numeric temperature t is valid exactly when it lies in
\* [-100, 400]: [200, 350], [-80, 80] and the residual ranges (80, 200),
\* [-100, -80), (350, 400] are accepted with the value unchanged; every t
\* below -100 or above 400 is invalid; a value that is no number is invalid.
C6_TemperatureValidity ==
    cpc = "done" =>
        IF IsNumber(probe)
          THEN /\ temp_valid.ok <=> (-10000 <= probe.v /\ probe.v <= 40000)
               /\ temp_valid.ok => temp_valid.v = probe.v
          ELSE ~temp_valid.ok

\* 199.9 is accepted
C6_Witness ==
    /\ cpc = "done"
    /\ probe = Raw("num", 19990)
    /\ temp_valid = Some(19990)

\* C7: a raw date enters the validated series exactly when its temperature
\* and its humidity are both valid, humidity being valid exactly when it is a
\* number in [0, 100]; the three series hold the values of the same dates (no
\* partial records); every humidity of a Summary lies in [0, 100]; a payload
\* of 7 dates, 2 with humidity -999 and 5 clean, succeeds with those 5 dates.
C7_BothFieldsValid ==
    /\ cpc = "done" =>
          /\ hum_valid.ok <=> HumidityInRange(probe)
          /\ hum_valid.ok => hum_valid.v = probe.v
    /\ pc = "reduce" =>
          /\ Range(valid_dates) = ValidDays
          /\ Len(temperatures) = Len(valid_dates)
          /\ Len(humidities) = Len(valid_dates)
          /\ \A i \in 1..Len(valid_dates) :
                /\ temperatures[i] = RawT(valid_dates[i]).v
                /\ humidities[i] = RawH(valid_dates[i]).v
    /\ resp.status = 200 =>
          \A i \in 1..Len(resp.humidities) :
              0 <= resp.humidities[i] /\ resp.humidities[i] <= 10000
    /\ (pc = "done" /\ ExpectedShape /\ Cardinality(RawDates) = 7
          /\ Cardinality({ d \in RawDates : RawH(d) = Raw("num", -99900) }) = 2
          /\ Cardinality(ValidDays) = 5) =>
          /\ resp.status = 200
          /\ resp.dataDays = 5
          /\ Range(resp.dates) = ValidDays

\* the payload of 7 dates with humidity -999 on dates 2 and 6
C7_Witness ==
    /\ pc = "done" /\ ExpectedShape
    /\ Cardinality(RawDates) = 7
    /\ { d \in RawDates : RawH(d) = Raw("num", -99900) } = {2, 6}
    /\ resp.status = 200
    /\ resp.dates = <<1, 3, 4, 5, 7>>

\* C8: with m the mean of the kept temperatures, the average temperature is
\* m - 273.15 when m > 100 and m when m <= 100 (100 itself is not converted),
\* whatever the scale of the single samples, and is reported rounded to two
\* decimals; the kept temperatures of the Summary are the raw validated values.
C8_UnitNormalization ==
    resp.status = 200 =>
        LET total == Sum(resp.temperatures)
            n == Len(resp.temperatures)
            celsius == IF total > 10000 * n THEN total - 27315 * n ELSE total
        IN  /\ temp_celsius = [num |-> celsius, den |-> n]
            /\ 2 * (resp.avgTemp * n - celsius) <= n
            /\ 2 * (celsius - resp.avgTemp * n) <= n
            /\ total = 10000 * n => resp.avgTemp = 10000
            /\ total = 1500 * n => resp.avgTemp = 1500
            /\ \A i \in 1..n : resp.temperatures[i] = RawT(resp.dates[i]).v

\* samples of both scales (270, 15, 15) with mean exactly 100: not converted
C8_Witness ==
    /\ pc = "done" /\ resp.status = 200
    /\ resp.temperatures = <<27000, 1500, 1500>>
    /\ resp.avgTemp = 10000

\* C9: after the provider call, a transport failure or a status that is no
\* success status ends in a ProviderError (500); the body of such a response
\* is never parsed into a Summary and no second provider call is made.
C9_ProviderFailure ==
    (pc = "done"
       /\ (fetched.outcome = "transport_error"
             \/ (fetched.outcome = "response" /\ ~SuccessStatus(fetched.status)))) =>
        /\ resp.status = 500
        /\ resp.kind = "ProviderError"
        /\ data = NoData
        /\ calls = 1

\* a failure after query validation: no response from the provider, a status
\* that is no success status, a body that is no document of the expected
\* shape, fewer than 3 raw dates, fewer than 3 valid days
FailureAfterValidation ==
    /\ calls >= 1
    /\ \/ fetched.outcome = "transport_error"
       \/ ~SuccessStatus(fetched.status)
       \/ ~fetched.json
       \/ ~ExpectedShape
       \/ DOMAIN data.RH2M = {}
       \/ Cardinality(RawDates) < 3
       \/ Cardinality(ValidDays) < 3

\* C10: every request ends in exactly one response; the stages run in the
\* order validation, fetch, shape check, raw-date-count check, validity
\* filtering, reduction; every failure after query validation is answered
\* with 500 and an error, never with 200 or 400.
C10_PipelineOrder ==
    /\ nresp = (IF pc = "done" THEN 1 ELSE 0)
    /\ IsPrefix(trace, PipelineOrder)
    /\ (pc = "done" /\ Len(trace) >= 4 /\ Cardinality(RawDates) < 3) =>
          (resp.kind = "InsufficientHistory" /\ Len(trace) = 4)
    /\ (pc = "done" /\ FailureAfterValidation) =>
          (resp.status = 500 /\ resp.kind # "Success")

=============================================================================
